---------------------------- MODULE Spec2Model ----------------------------
(* Model of the weather-dashboard repository:                              *)
(*   pipeline.py  - the extract / transform / load script (one run is one  *)
(*                  execution of the script, top to bottom);               *)
(*   dashboard.py - WeatherDashboard.get_latest_data, the latest-reading-  *)
(*                  per-city reduction over the loaded table.              *)
EXTENDS Integers, Sequences, FiniteSets, TLC

(***************************************************************************)
(* Bounds                                                                  *)
(***************************************************************************)
\* number of executions of pipeline.py in one behaviour
MaxRuns == 2
\* number of abnormal events the environment produces in one behaviour
\* (failed / empty / malformed / renamed fetch, API outage, sink failure)
MaxAnomalies == 2
\* number of rows of the table the dashboard has loaded
MaxRows == 3
\* largest load_timestamp_utc value in a loaded table
MaxStamp == 2

(***************************************************************************)
(* pipeline.py: constants                                                  *)
(***************************************************************************)
\* CITIES_DATA, by position; the "id" of a city is its position here
CITIES_DATA ==
    << "Mumbai", "Delhi", "Bengaluru", "Chennai", "Kolkata",
       "Hyderabad", "Jaipur", "Pune", "Ghaziabad" >>

NumCities == Len(CITIES_DATA)

RosterNames == { CITIES_DATA[k] : k \in 1..NumCities }

\* names the upstream API may report that are not in CITIES_DATA
AltNames == { "Bangalore" }

\* the value fetch_weather_data_by_id returns on a RequestException
None == [id |-> 0, name |-> "", kind |-> "none"]

\* a JSON payload with every field the transform reads
OkPayload(city_id, nm) == [id |-> city_id, name |-> nm, kind |-> "ok"]
\* a non-empty JSON payload that lacks a field the transform reads
MalformedPayload(city_id) == [id |-> city_id, name |-> "", kind |-> "malformed"]
\* an empty JSON document ({} or [])
EmptyPayload(city_id) == [id |-> city_id, name |-> "", kind |-> "empty"]

\* Python truth value of a fetch result: None and empty containers are falsy
Truthy(p) == p.kind \in {"ok", "malformed"}

\* fetch_weather_data_by_id: the values one call can return.
\* down: the API is unreachable; canFault: the environment may still
\* produce an abnormal response.
fetch_weather_data_by_id(city_id, down, canFault) ==
    IF down THEN { None }
    ELSE { OkPayload(city_id, CITIES_DATA[city_id]) }
         \cup (IF canFault
               THEN { None, EmptyPayload(city_id), MalformedPayload(city_id) }
                    \cup { OkPayload(city_id, nm) : nm \in AltNames }
               ELSE {})

(***************************************************************************)
(* Rows and CSV lines                                                      *)
(***************************************************************************)
\* one entry of transformed_data (the columns the claims speak of)
TransformEntry(data, now) == [city |-> data.name, ts |-> now]

HeaderLine == [kind |-> "header", city |-> "", ts |-> 0]
\* the header line of a DataFrame without columns: an empty line
BlankLine  == [kind |-> "blank",  city |-> "", ts |-> 0]
RowLine(r) == [kind |-> "row", city |-> r.city, ts |-> r.ts]

\* DataFrame.to_csv(mode='a', header=h, index=False): the lines written
to_csv_lines(frame, h) ==
    (IF h THEN (IF frame = << >> THEN << BlankLine >> ELSE << HeaderLine >>)
          ELSE << >>)
    \o [k \in 1..Len(frame) |-> RowLine(frame[k])]

VARIABLES
    runs,              \* executions of pipeline.py started so far
    anomalies,         \* abnormal events so far
    pc,                \* position of the running script
    outage,            \* the API is unreachable during this run
    i,                 \* index of the extract loop in CITIES_DATA
    responses,         \* what each fetch of this run returned, in order
    all_weather_data,  \* list of payloads
    df,                \* the DataFrame of this run
    csv_exists,        \* os.path.isfile(CSV_FILE)
    csv_lines,         \* lines of CSV_FILE
    table_exists,      \* weather_log exists in DB_FILE
    weather_log,       \* rows of weather_log
    conn,              \* "none" | "open" | "closed"
    csv_result,        \* outcome of this run's CSV append
    sql_result,        \* outcome of this run's table append
    csv_attempts,      \* CSV append operations started in this run
    sql_attempts,      \* table append operations started in this run
    csv_faulted,       \* some CSV append has failed in this behaviour
    self_df,           \* WeatherDashboard.df
    latest_data,       \* value returned by get_latest_data
    dpc                \* position of the dashboard

pipeVars == << runs, anomalies, pc, outage, i, responses,
               all_weather_data, df, csv_exists, csv_lines, table_exists,
               weather_log, conn, csv_result, sql_result, csv_attempts,
               sql_attempts, csv_faulted >>
dashVars == << self_df, latest_data, dpc >>
vars == << pipeVars, dashVars >>

sinkVars == << csv_exists, csv_lines, table_exists, weather_log, csv_faulted >>

(***************************************************************************)
(* pipeline.py                                                             *)
(***************************************************************************)
PipeInit ==
    /\ runs = 0
    /\ anomalies = 0
    /\ pc = "idle"
    /\ outage = FALSE
    /\ i = 1
    /\ responses = << >>
    /\ all_weather_data = << >>
    /\ df = << >>
    /\ csv_exists = FALSE
    /\ csv_lines = << >>
    /\ table_exists = FALSE
    /\ weather_log = << >>
    /\ conn = "none"
    /\ csv_result = "none"
    /\ sql_result = "none"
    /\ csv_attempts = 0
    /\ sql_attempts = 0
    /\ csv_faulted = FALSE

DashIdle ==
    /\ self_df = << >>
    /\ latest_data = << >>
    /\ dpc = "unused"

\* The script is started: module-level state is fresh, the sinks persist.
StartRun ==
    /\ pc \in {"idle", "done", "crashed"}
    /\ runs < MaxRuns
    /\ runs' = runs + 1
    /\ \E down \in BOOLEAN :
         /\ down => anomalies < MaxAnomalies
         /\ outage' = down
         /\ anomalies' = IF down THEN anomalies + 1 ELSE anomalies
    /\ pc' = "extract"
    /\ i' = 1
    /\ responses' = << >>
    /\ all_weather_data' = << >>
    /\ df' = << >>
    /\ conn' = "none"
    /\ csv_result' = "none"
    /\ sql_result' = "none"
    /\ csv_attempts' = 0
    /\ sql_attempts' = 0
    /\ UNCHANGED << sinkVars, dashVars >>

\* ExtractCity with a loop that stops at the first failed fetch.
ExtractCityBreak ==
    /\ pc = "extract"
    /\ \E weather_json \in
            fetch_weather_data_by_id(i, outage, anomalies < MaxAnomalies) :
         /\ anomalies' =
              IF outage \/ weather_json = OkPayload(i, CITIES_DATA[i])
              THEN anomalies ELSE anomalies + 1
         /\ responses' = Append(responses, weather_json)
         /\ IF Truthy(weather_json)
            THEN /\ all_weather_data' = Append(all_weather_data, weather_json)
                 /\ IF i < NumCities
                    THEN i' = i + 1 /\ pc' = pc
                    ELSE i' = i /\ pc' = "transform"
            ELSE /\ all_weather_data' = all_weather_data
                 /\ i' = i
                 /\ pc' = "transform"
    /\ UNCHANGED << runs, outage, df, conn, csv_result, sql_result,
                    csv_attempts, sql_attempts, sinkVars, dashVars >>

\* One iteration of the extract loop.
ExtractCity ==
    /\ pc = "extract"
    /\ \E weather_json \in
            fetch_weather_data_by_id(i, outage, anomalies < MaxAnomalies) :
         /\ anomalies' =
              IF outage \/ weather_json = OkPayload(i, CITIES_DATA[i])
              THEN anomalies ELSE anomalies + 1
         /\ responses' = Append(responses, weather_json)
         /\ IF Truthy(weather_json)
            THEN all_weather_data' = Append(all_weather_data, weather_json)
            ELSE all_weather_data' = all_weather_data
    /\ IF i < NumCities
       THEN /\ i' = i + 1
            /\ pc' = pc
       ELSE /\ i' = i
            /\ pc' = "transform"
    /\ UNCHANGED << runs, outage, df, conn, csv_result, sql_result,
                    csv_attempts, sql_attempts, sinkVars, dashVars >>

\* The transform loop and the DataFrame construction.  Reading a missing
\* field raises KeyError, which nothing catches: the script ends there.
Transform ==
    /\ pc = "transform"
    /\ IF \E k \in 1..Len(all_weather_data) : all_weather_data[k].kind # "ok"
       THEN /\ pc' = "crashed"
            /\ df' = df
       ELSE /\ pc' = "load_csv"
            /\ df' = [k \in 1..Len(all_weather_data) |->
                        TransformEntry(all_weather_data[k], runs)]
    /\ UNCHANGED << runs, anomalies, outage, i, responses,
                    all_weather_data, conn, csv_result, sql_result,
                    csv_attempts, sql_attempts, sinkVars, dashVars >>

\* LOAD, CSV: to_csv succeeds.
LoadCsvOk ==
    /\ pc = "load_csv"
    /\ LET file_exists == csv_exists
       IN  csv_lines' = csv_lines \o to_csv_lines(df, ~file_exists)
    /\ csv_exists' = TRUE
    /\ csv_result' = "ok"
    /\ csv_attempts' = csv_attempts + 1
    /\ pc' = "load_sql"
    /\ UNCHANGED << runs, anomalies, outage, i, responses,
                    all_weather_data, df, conn, sql_result, sql_attempts,
                    table_exists, weather_log, csv_faulted, dashVars >>

\* LoadCsvOpenFail without the try/except: the exception ends the script.
LoadCsvOpenFailAbort ==
    /\ pc = "load_csv"
    /\ anomalies < MaxAnomalies
    /\ anomalies' = anomalies + 1
    /\ csv_result' = "fail"
    /\ csv_faulted' = TRUE
    /\ csv_attempts' = csv_attempts + 1
    /\ pc' = "crashed"
    /\ UNCHANGED << runs, outage, i, responses, all_weather_data, df,
                    conn, sql_result, sql_attempts, csv_exists, csv_lines,
                    table_exists, weather_log, dashVars >>

\* LOAD, CSV: the file cannot be opened; the except clause logs and goes on.
LoadCsvOpenFail ==
    /\ pc = "load_csv"
    /\ anomalies < MaxAnomalies
    /\ anomalies' = anomalies + 1
    /\ csv_result' = "fail"
    /\ csv_faulted' = TRUE
    /\ csv_attempts' = csv_attempts + 1
    /\ pc' = "load_sql"
    /\ UNCHANGED << runs, outage, i, responses, all_weather_data, df,
                    conn, sql_result, sql_attempts, csv_exists, csv_lines,
                    table_exists, weather_log, dashVars >>

\* LOAD, CSV: the file is opened (and so exists) but a write fails after
\* n of the lines reached the file; the except clause logs and goes on.
LoadCsvWriteFail ==
    /\ pc = "load_csv"
    /\ anomalies < MaxAnomalies
    /\ anomalies' = anomalies + 1
    /\ LET file_exists == csv_exists
           lines == to_csv_lines(df, ~file_exists)
       IN  \E n \in 0..Len(lines) :
             /\ n < Len(lines) \/ lines = << >>
             /\ csv_lines' = csv_lines \o SubSeq(lines, 1, n)
    /\ csv_exists' = TRUE
    /\ csv_result' = "fail"
    /\ csv_faulted' = TRUE
    /\ csv_attempts' = csv_attempts + 1
    /\ pc' = "load_sql"
    /\ UNCHANGED << runs, outage, i, responses, all_weather_data, df,
                    conn, sql_result, sql_attempts, table_exists, weather_log,
                    dashVars >>

\* LOAD, SQLite: sqlite3.connect raises; conn is never bound.
LoadSqlConnectFail ==
    /\ pc = "load_sql"
    /\ anomalies < MaxAnomalies
    /\ anomalies' = anomalies + 1
    /\ conn' = "none"
    /\ sql_result' = "fail"
    /\ sql_attempts' = sql_attempts + 1
    /\ pc' = "done"
    /\ UNCHANGED << runs, outage, i, responses, all_weather_data, df,
                    csv_result, csv_attempts, sinkVars, dashVars >>

\* LoadSqlOk with if_exists='replace': the table is rebuilt from the batch.
LoadSqlOkReplace ==
    /\ pc = "load_sql"
    /\ IF df = << >> /\ ~table_exists
       THEN /\ conn' = "open"
            /\ sql_result' = "fail"
            /\ UNCHANGED << table_exists, weather_log >>
       ELSE /\ weather_log' = df
            /\ table_exists' = TRUE
            /\ conn' = "closed"
            /\ sql_result' = "ok"
    /\ sql_attempts' = sql_attempts + 1
    /\ pc' = "done"
    /\ UNCHANGED << runs, anomalies, outage, i, responses,
                    all_weather_data, df, csv_result, csv_attempts,
                    csv_exists, csv_lines, csv_faulted, dashVars >>

\* LOAD, SQLite: connect succeeds and to_sql runs without an injected fault.
\* A DataFrame without columns cannot create the table (CREATE TABLE with
\* no column is rejected), so to_sql raises and conn.close() is skipped;
\* otherwise the batch is appended and the connection closed.
LoadSqlOk ==
    /\ pc = "load_sql"
    /\ IF df = << >> /\ ~table_exists
       THEN /\ conn' = "open"
            /\ sql_result' = "fail"
            /\ UNCHANGED << table_exists, weather_log >>
       ELSE /\ weather_log' = weather_log \o df
            /\ table_exists' = TRUE
            /\ conn' = "closed"
            /\ sql_result' = "ok"
    /\ sql_attempts' = sql_attempts + 1
    /\ pc' = "done"
    /\ UNCHANGED << runs, anomalies, outage, i, responses,
                    all_weather_data, df, csv_result, csv_attempts,
                    csv_exists, csv_lines, csv_faulted, dashVars >>

\* LOAD, SQLite: connect succeeds, to_sql raises (the insert is rolled back,
\* the table may have been created); conn.close() is skipped.
LoadSqlWriteFail ==
    /\ pc = "load_sql"
    /\ anomalies < MaxAnomalies
    /\ anomalies' = anomalies + 1
    /\ conn' = "open"
    /\ sql_result' = "fail"
    /\ weather_log' = weather_log
    /\ \E created \in BOOLEAN :
         /\ created => df # << >>
         /\ table_exists' = (table_exists \/ created)
    /\ sql_attempts' = sql_attempts + 1
    /\ pc' = "done"
    /\ UNCHANGED << runs, outage, i, responses, all_weather_data, df,
                    csv_result, csv_attempts, csv_exists, csv_lines,
                    csv_faulted, dashVars >>

(***************************************************************************)
(* dashboard.py: WeatherDashboard                                          *)
(***************************************************************************)
\* self.cities_order
cities_order ==
    << "Mumbai", "Delhi", "Bengaluru", "Chennai", "Kolkata",
       "Hyderabad", "Jaipur", "Pune", "Ghaziabad" >>

OrderedCities == { cities_order[k] : k \in 1..Len(cities_order) }

\* missing values: NaT in load_timestamp_utc (Null to GroupBy.last),
\* NaN in the categorical city column
NaT == 0
Null == 0
NaN == "NaN"

\* city values of the tables the dashboard is given
StoreCities == { "Mumbai", "Delhi", "Bangalore", "Agra" }

\* the order of Python string comparison on the names in use
Lexicographic ==
    << "Agra", "Bangalore", "Bengaluru", "Chennai", "Delhi", "Ghaziabad",
       "Hyderabad", "Jaipur", "Kolkata", "Mumbai", "Pune" >>

LexRank(c) == CHOOSE k \in 1..Len(Lexicographic) : Lexicographic[k] = c

\* rows of weather_log as the dashboard sees them: the city and the load
\* timestamp (NaT where the stored value is NULL)
StoreRows == [city : StoreCities, ts : 0..MaxStamp]

Stores == UNION { [1..n -> StoreRows] : n \in 0..MaxRows }

\* the orderings of a set of row positions
RECURSIVE Orderings(_)
Orderings(S) ==
    IF S = {} THEN { << >> }
    ELSE UNION { { << x >> \o p : p \in Orderings(S \ {x}) } : x \in S }

\* the permutations of 1..n, for every length a frame can have
AllPerms == [n \in 0..MaxRows |-> Orderings(1..n)]

Perms(n) == AllPerms[n]

\* ascending order of timestamps with na_position='last'
TsLeq(a, b) == b = NaT \/ (a # NaT /\ a <= b)

\* DataFrame.sort_values('load_timestamp_utc'): the default sort is not
\* stable, so equal timestamps may come out in any order
sort_values_ts(frame) ==
    { [k \in 1..Len(frame) |-> frame[p[k]]] : p \in
        { q \in Perms(Len(frame)) :
            \A a, b \in 1..Len(frame) :
                a < b => TsLeq(frame[q[a]].ts, frame[q[b]].ts) } }

\* the group keys of groupby('city'), in sorted key order
GroupKeys(frame) ==
    LET S == { frame[k].city : k \in 1..Len(frame) }
    IN  SelectSeq(Lexicographic, LAMBDA c : c \in S)

GroupRows(frame, c) == SelectSeq(frame, LAMBDA r : r.city = c)

\* GroupBy.first() on one column: the first non-null value of the group
first(group, col) ==
    LET valid == { k \in 1..Len(group) : group[k][col] # Null }
    IN  IF valid = {} THEN Null
        ELSE group[CHOOSE k \in valid : \A m \in valid : k <= m][col]

\* GroupBy.last() on one column: the last non-null value of the group
last(group, col) ==
    LET valid == { k \in 1..Len(group) : group[k][col] # Null }
    IN  IF valid = {} THEN Null
        ELSE group[CHOOSE k \in valid : \A m \in valid : m <= k][col]

\* .groupby('city').last().reset_index()
groupby_last(frame) ==
    LET keys == GroupKeys(frame)
    IN  [k \in 1..Len(keys) |->
            [city |-> keys[k],
             ts   |-> last(GroupRows(frame, keys[k]), "ts")]]

\* pd.Categorical(values, categories=self.cities_order, ordered=True):
\* a value that is not a category becomes NaN
Categorical(frame) ==
    [k \in 1..Len(frame) |->
        [frame[k] EXCEPT !.city =
            IF frame[k].city \in OrderedCities THEN frame[k].city ELSE NaN]]

Code(c) == CHOOSE k \in 1..Len(cities_order) : cities_order[k] = c

\* get_latest_data without the final sort: rows stay in group-key order
sort_values_city_skipped(frame) == { frame }

\* DataFrame.sort_values('city') on the ordered categorical: rows in
\* ascending category code, then the NaN rows in their previous order
sort_values_city(frame) ==
    LET known == SelectSeq(frame, LAMBDA r : r.city # NaN)
        nans  == SelectSeq(frame, LAMBDA r : r.city = NaN)
        byCode == { [k \in 1..Len(known) |-> known[p[k]]] : p \in
                     { q \in Perms(Len(known)) :
                         \A a, b \in 1..Len(known) :
                            a < b => Code(known[q[a]].city)
                                       <= Code(known[q[b]].city) } }
    IN  { s \o nans : s \in byCode }

\* WeatherDashboard.get_latest_data: the values one call can return
get_latest_data(frame) ==
    IF frame = << >> THEN { << >> }
    ELSE UNION { sort_values_city(Categorical(groupby_last(s))) :
                    s \in sort_values_ts(frame) }

\* State after WeatherDashboard.__init__ on some stored table.
DashInit ==
    /\ self_df \in Stores
    /\ latest_data = << >>
    /\ dpc = "loaded"

\* render() calls get_latest_data once.
GetLatestData ==
    /\ dpc = "loaded"
    /\ latest_data' \in get_latest_data(self_df)
    /\ dpc' = "returned"
    /\ UNCHANGED << pipeVars, self_df >>

InitDash == PipeInit /\ DashInit

NextDash == GetLatestData

SpecDash == InitDash /\ [][NextDash]_vars

Init == PipeInit /\ DashIdle

Next ==
    \/ StartRun
    \/ ExtractCity
    \/ Transform
    \/ LoadCsvOk
    \/ LoadCsvOpenFail
    \/ LoadCsvWriteFail
    \/ LoadSqlConnectFail
    \/ LoadSqlOk
    \/ LoadSqlWriteFail

Spec == Init /\ [][Next]_vars

(***************************************************************************)
(* Properties                                                              *)
(***************************************************************************)

\* C1: for every city of the roster that has a row in the loaded table, the
\* row get_latest_data returns for it carries the greatest
\* load_timestamp_utc of that city's rows (NaT counts as no timestamp).
C1_LatestIsMaxLoadTimestamp ==
    dpc = "returned" =>
        \A c \in OrderedCities :
            LET stamps == { self_df[k].ts :
                              k \in { j \in 1..Len(self_df) :
                                        self_df[j].city = c } }
                out == { k \in 1..Len(latest_data) : latest_data[k].city = c }
            IN  stamps # {} =>
                    /\ Cardinality(out) = 1
                    /\ \A k \in out :
                         /\ latest_data[k].ts \in stamps
                         /\ \A t \in stamps : t <= latest_data[k].ts

\* a roster city whose newest row is stored before an older one
C1_Witness ==
    /\ dpc = "returned"
    /\ \E j, k \in 1..Len(self_df) :
         /\ j < k
         /\ self_df[j].city = "Mumbai"
         /\ self_df[k].city = "Mumbai"
         /\ self_df[k].ts # NaT
         /\ self_df[j].ts > self_df[k].ts
         /\ \E m \in 1..Len(latest_data) :
              /\ latest_data[m].city = "Mumbai"
              /\ latest_data[m].ts = self_df[j].ts

\* C2: when the fetches of a set F of cities fail and every other fetch
\* returns a well-formed payload, every city is still requested, the batch
\* holds exactly one row for each city outside F, in roster order, and none
\* for a city in F; that batch is what a successful append adds to a sink.
C2_FailedFetchesSkipped ==
    LET F == { k \in 1..Len(responses) : responses[k] = None }
        othersSucceed ==
            \A k \in 1..Len(responses) :
                k \notin F => responses[k].kind = "ok"
        kept == SelectSeq([k \in 1..NumCities |-> k], LAMBDA k : k \notin F)
    IN  /\ pc = "extract" => Len(responses) = i - 1
        /\ pc \in {"transform", "load_csv", "load_sql", "done", "crashed"}
              => Len(responses) = NumCities
        /\ (pc \in {"load_csv", "load_sql", "done"} /\ othersSucceed) =>
              /\ Len(df) = NumCities - Cardinality(F)
              /\ Len(all_weather_data) = Len(df)
              /\ \A k \in 1..Len(df) :
                    /\ all_weather_data[k].id = kept[k]
                    /\ df[k].city = all_weather_data[k].name
              /\ (pc = "done" /\ sql_result = "ok") =>
                    /\ Len(weather_log) >= Len(df)
                    /\ SubSeq(weather_log, Len(weather_log) - Len(df) + 1,
                              Len(weather_log)) = df
              /\ (pc \in {"load_sql", "done"} /\ csv_result = "ok") =>
                    /\ Len(csv_lines) >= Len(df)
                    /\ SubSeq(csv_lines, Len(csv_lines) - Len(df) + 1,
                              Len(csv_lines))
                         = [k \in 1..Len(df) |-> RowLine(df[k])]

\* the fetch for Pune fails, the other 8 succeed, 8 rows reach the table
C2_Witness ==
    /\ pc = "done"
    /\ sql_result = "ok"
    /\ Len(responses) = NumCities
    /\ \A k \in 1..NumCities :
         IF CITIES_DATA[k] = "Pune" THEN responses[k] = None
         ELSE responses[k] = OkPayload(k, CITIES_DATA[k])
    /\ Len(df) = 8
    /\ \A k \in 1..Len(df) : df[k].city # "Pune"

\* C3: no step of the ingestion job removes, changes or reorders a line of
\* the CSV file or a row of weather_log: what a sink held before a step is
\* a prefix of what it holds after it.
C3_AppendOnly ==
    [][ LET IsPrefix(s, t) == Len(s) <= Len(t) /\ SubSeq(t, 1, Len(s)) = s
        IN  /\ IsPrefix(csv_lines, csv_lines')
            /\ IsPrefix(weather_log, weather_log')
            /\ csv_exists => csv_exists'
            /\ table_exists => table_exists' ]_vars

\* a second run has appended a batch behind the rows of the first in both
\* sinks
C3_Witness ==
    /\ runs = 2
    /\ pc = "done"
    /\ df # << >>
    /\ csv_result = "ok"
    /\ sql_result = "ok"
    /\ Len(weather_log) > Len(df)
    /\ weather_log[1].ts = 1
    /\ Len(csv_lines) > Len(df) + 1
    /\ csv_lines[2].ts = 1

\* C4: once the CSV file exists (and no CSV write has failed), its first
\* line is the header row and every other line is a data row.
C4_HeaderOnceAsFirstLine ==
    (csv_exists /\ ~csv_faulted) =>
        /\ Len(csv_lines) >= 1
        /\ csv_lines[1] = HeaderLine
        /\ \A k \in 2..Len(csv_lines) : csv_lines[k].kind = "row"

\* C5: the city of every stored row, in either sink, is a roster name.
C5_OnlyRosterCities ==
    /\ \A k \in 1..Len(weather_log) : weather_log[k].city \in RosterNames
    /\ \A k \in 1..Len(csv_lines) :
         csv_lines[k].kind = "row" => csv_lines[k].city \in RosterNames

\* C6: the rows returned for roster cities are in roster order, and every
\* permutation of the loaded table gives the same sequence of cities.
C6_RosterOrderUnderPermutation ==
    dpc = "returned" =>
        /\ \A a, b \in 1..Len(latest_data) :
             (/\ a < b
              /\ latest_data[a].city \in OrderedCities
              /\ latest_data[b].city \in OrderedCities)
             => Code(latest_data[a].city) < Code(latest_data[b].city)
        /\ \A p \in Perms(Len(self_df)) :
             \A other \in get_latest_data(
                            [k \in 1..Len(self_df) |-> self_df[p[k]]]) :
                [k \in 1..Len(other) |-> other[k].city]
                  = [k \in 1..Len(latest_data) |-> latest_data[k].city]

\* Delhi is stored before Mumbai and returned after it
C6_Witness ==
    /\ dpc = "returned"
    /\ Len(self_df) >= 2
    /\ self_df[1].city = "Delhi"
    /\ self_df[2].city = "Mumbai"
    /\ Len(latest_data) >= 2
    /\ latest_data[1].city = "Mumbai"
    /\ latest_data[2].city = "Delhi"

\* C7: every city of the table that is not in the roster has exactly one
\* returned row carrying its name, after all roster rows, and these rows
\* are in alphabetical order of city.
C7_NonRosterCitiesNamedAndLast ==
    dpc = "returned" =>
        LET others == { self_df[k].city : k \in 1..Len(self_df) }
                         \ OrderedCities
        IN  /\ \A c \in others :
                 Cardinality({ k \in 1..Len(latest_data) :
                                 latest_data[k].city = c }) = 1
            /\ \A a, b \in 1..Len(latest_data) :
                 (latest_data[a].city \in OrderedCities
                    /\ latest_data[b].city \in others) => a < b
            /\ \A a, b \in 1..Len(latest_data) :
                 (/\ a < b
                  /\ latest_data[a].city \in others
                  /\ latest_data[b].city \in others)
                 => LexRank(latest_data[a].city) < LexRank(latest_data[b].city)

\* C8: a run in which exactly one payload lacks a field, all other fetches
\* return well-formed payloads and no sink fails ends with the rows of the
\* other 8 cities appended to both sinks.
C8_MalformedPayloadSkipsOneCity ==
    LET bad == { k \in 1..Len(responses) : responses[k].kind = "malformed" }
    IN  (/\ pc \in {"done", "crashed"}
         /\ Len(responses) = NumCities
         /\ Cardinality(bad) = 1
         /\ \A k \in 1..NumCities : k \notin bad => responses[k].kind = "ok"
         /\ csv_result # "fail"
         /\ sql_result # "fail")
        => /\ pc = "done"
           /\ csv_result = "ok"
           /\ sql_result = "ok"
           /\ Len(df) = NumCities - 1

\* C9: the step after the CSV append, failed or not, is the table append;
\* each sink gets one append operation per run; the CSV append leaves the
\* table as it is and the table append, failed or not, leaves the file as
\* it is.
C9_BothSinksAttemptedNoRollback ==
    [][ /\ pc = "load_csv" =>
              /\ pc' = "load_sql"
              /\ csv_attempts' = 1
              /\ sql_attempts' = 0
              /\ weather_log' = weather_log
              /\ table_exists' = table_exists
        /\ pc = "load_sql" =>
              /\ pc' = "done"
              /\ csv_attempts' = 1
              /\ sql_attempts' = 1
              /\ csv_lines' = csv_lines
              /\ csv_exists' = csv_exists
        /\ pc' = "done" => (csv_attempts' = 1 /\ sql_attempts' = 1)
        /\ csv_attempts' <= 1
        /\ sql_attempts' <= 1 ]_vars

\* the CSV append failed and the batch was then appended to the table
C9_Witness ==
    /\ pc = "done"
    /\ df # << >>
    /\ csv_result = "fail"
    /\ sql_result = "ok"
    /\ csv_attempts = 1
    /\ sql_attempts = 1
    /\ Len(weather_log) >= Len(df)

\* C10: at the end of a run no database connection the run opened is
\* still open.
C10_ConnectionReleased ==
    pc = "done" => conn # "open"

=============================================================================
